---- MODULE Spec2Model ----
(***************************************************************************)
(* Model of github.com/tenkoh/go-shecomp: the SHE (AUTOSAR Secure Hardware *)
(* Extensions) compression function.  A call of Compress, Padding or       *)
(* CompressWithoutPadding reads a hexadecimal character stream from an     *)
(* io.Reader, 32 characters per Read, decodes it into 16-byte blocks, pads *)
(* the last one and folds the blocks with AES-128 in Miyaguchi-Preneel     *)
(* mode.  Characters are ASCII codes, bytes are 0..255, the uint64 counter *)
(* readBytes is kept as 8 little-endian base-256 digits so that values     *)
(* around 2^37 (the length limit) are exact.                               *)
(***************************************************************************)
EXTENDS Integers, Sequences, FiniteSets, TLC

\* ---------------------------------------------------------------- bounds
\* largest number of full 16-byte blocks in a generated message
MaxBlocks == 2

\* ------------------------------------------------------- program constants
blockSize == 16

\* ------------------------------------------------------------ bytes, xor
Xor4 ==
  <<
     <<0, 1, 2, 3, 4, 5, 6, 7, 8, 9, 10, 11, 12, 13, 14, 15>>,
     <<1, 0, 3, 2, 5, 4, 7, 6, 9, 8, 11, 10, 13, 12, 15, 14>>,
     <<2, 3, 0, 1, 6, 7, 4, 5, 10, 11, 8, 9, 14, 15, 12, 13>>,
     <<3, 2, 1, 0, 7, 6, 5, 4, 11, 10, 9, 8, 15, 14, 13, 12>>,
     <<4, 5, 6, 7, 0, 1, 2, 3, 12, 13, 14, 15, 8, 9, 10, 11>>,
     <<5, 4, 7, 6, 1, 0, 3, 2, 13, 12, 15, 14, 9, 8, 11, 10>>,
     <<6, 7, 4, 5, 2, 3, 0, 1, 14, 15, 12, 13, 10, 11, 8, 9>>,
     <<7, 6, 5, 4, 3, 2, 1, 0, 15, 14, 13, 12, 11, 10, 9, 8>>,
     <<8, 9, 10, 11, 12, 13, 14, 15, 0, 1, 2, 3, 4, 5, 6, 7>>,
     <<9, 8, 11, 10, 13, 12, 15, 14, 1, 0, 3, 2, 5, 4, 7, 6>>,
     <<10, 11, 8, 9, 14, 15, 12, 13, 2, 3, 0, 1, 6, 7, 4, 5>>,
     <<11, 10, 9, 8, 15, 14, 13, 12, 3, 2, 1, 0, 7, 6, 5, 4>>,
     <<12, 13, 14, 15, 8, 9, 10, 11, 4, 5, 6, 7, 0, 1, 2, 3>>,
     <<13, 12, 15, 14, 9, 8, 11, 10, 5, 4, 7, 6, 1, 0, 3, 2>>,
     <<14, 15, 12, 13, 10, 11, 8, 9, 6, 7, 4, 5, 2, 3, 0, 1>>,
     <<15, 14, 13, 12, 11, 10, 9, 8, 7, 6, 5, 4, 3, 2, 1, 0>> >>

\* a ^ b on bytes
XorByte(a, b) ==
  16 * Xor4[(a \div 16) + 1][(b \div 16) + 1] + Xor4[(a % 16) + 1][(b % 16) + 1]

\* a | b on bytes, only used as 0x80 | x
OrByte80(x) == IF x >= 128 THEN x ELSE x + 128

\* TLC keeps [i \in S |-> e] unevaluated; concatenation yields the tuple
Slice(f) == f \o <<>>

Zeros(n) == Slice([i \in 1..n |-> 0])

\* copy(dst, s): the first min(len(dst), len(s)) bytes of s overwrite dst
Copy(dst, s) ==
  Slice([i \in 1..Len(dst) |-> IF i <= Len(s) THEN s[i] ELSE dst[i]])

\* xor(a, b) of shecomp.go; the length mismatch is the error value
xor(a, b) ==
  IF Len(a) # Len(b) THEN [r |-> <<>>, err |-> "xor: length mismatch"]
  ELSE [r |-> Slice([i \in 1..Len(a) |-> XorByte(a[i], b[i])]), err |-> "nil"]

\* ------------------------------------------------------ uint64 arithmetic
\* a uint64 is <<d0, ..., d7>>, value = sum d_i * 256^i, arithmetic mod 2^64
U64Zero == <<0, 0, 0, 0, 0, 0, 0, 0>>

RECURSIVE U64Carry(_, _, _)
\* add carry c (a small natural) into digit i and ripple upwards
U64Carry(a, i, c) ==
  IF i > 8 \/ c = 0 THEN a
  ELSE U64Carry([a EXCEPT ![i] = (a[i] + c) % 256], i + 1, (a[i] + c) \div 256)

\* a + uint64(n)
U64Add(a, n) == U64Carry(a, 1, n)

RECURSIVE U64MulSmall(_, _, _, _)
\* a * k for a small k, digit by digit from digit i with carry c
U64MulSmall(a, k, i, c) ==
  IF i > 8 THEN a
  ELSE U64MulSmall([a EXCEPT ![i] = (a[i] * k + c) % 256], k, i + 1,
                   (a[i] * k + c) \div 256)

\* a * 8
U64Mul8(a) == U64MulSmall(a, 8, 1, 0)

\* 0xff & (a >> (8 * i))
U64Byte(a, i) == a[i + 1]

RECURSIVE U64GtFrom(_, _, _)
U64GtFrom(a, b, i) ==
  IF i = 0 THEN FALSE
  ELSE IF a[i] # b[i] THEN a[i] > b[i]
  ELSE U64GtFrom(a, b, i - 1)

\* a > b
U64Gt(a, b) == U64GtFrom(a, b, 8)

\* 1<<40 - 1
maxBitLength == <<255, 255, 255, 255, 255, 0, 0, 0>>

\* ----------------------------------------------------------- encoding/hex
\* fromHexChar: the value of a hex digit, 255 for any other character
fromHexChar(c) ==
  IF c >= 48 /\ c <= 57 THEN c - 48
  ELSE IF c >= 97 /\ c <= 102 THEN c - 97 + 10
  ELSE IF c >= 65 /\ c <= 70 THEN c - 65 + 10
  ELSE 255

RECURSIVE hexDecodeFrom(_, _, _)
\* the loop of hex.Decode: i bytes are decoded, pair i+1 of h is next
hexDecodeFrom(dst, h, i) ==
  IF 2 * i + 2 <= Len(h)
  THEN LET a == fromHexChar(h[2 * i + 1])
           b == fromHexChar(h[2 * i + 2])
       IN  IF a > 15 THEN [n |-> i, err |-> "hex.InvalidByteError", dst |-> dst]
           ELSE IF b > 15 THEN [n |-> i, err |-> "hex.InvalidByteError", dst |-> dst]
           ELSE hexDecodeFrom([dst EXCEPT ![i + 1] = 16 * a + b], h, i + 1)
  ELSE IF Len(h) % 2 = 1
       THEN IF fromHexChar(h[Len(h)]) > 15
            THEN [n |-> i, err |-> "hex.InvalidByteError", dst |-> dst]
            ELSE [n |-> i, err |-> "hex.ErrLength", dst |-> dst]
       ELSE [n |-> i, err |-> "nil", dst |-> dst]

\* hex.Decode(dst, h)
hexDecodeString(dst, h) == hexDecodeFrom(dst, h, 0)

\* hexDecode that drops the error of hex.Decode and keeps the bytes decoded
\* before it
hexDecode_ErrorDropped(dst, rd) ==
  IF rd.err # "nil" THEN [n |-> 0, err |-> rd.err, dst |-> dst]
  ELSE [hexDecodeString(dst, rd.h) EXCEPT !.err = "nil"]

\* hexDecode(dst, src) given what src.Read(h) returned: rd.h are the
\* characters read and rd.err the error of the Read
hexDecode(dst, rd) ==
  IF rd.err # "nil" THEN [n |-> 0, err |-> rd.err, dst |-> dst]
  ELSE hexDecodeString(dst, rd.h)

hextable == <<48, 49, 50, 51, 52, 53, 54, 55, 56, 57, 97, 98, 99, 100, 101, 102>>

\* hex.Encode: two lower-case digits per byte
hexEncode(s) ==
  Slice([i \in 1..(2 * Len(s)) |->
           IF i % 2 = 1 THEN hextable[(s[(i + 1) \div 2] \div 16) + 1]
           ELSE hextable[(s[i \div 2] % 16) + 1]])

\* ----------------------------------------------------- crypto/aes, AES-128
sbox ==
  <<
     99, 124, 119, 123, 242, 107, 111, 197, 48, 1, 103, 43, 254, 215, 171, 118,
     202, 130, 201, 125, 250, 89, 71, 240, 173, 212, 162, 175, 156, 164, 114, 192,
     183, 253, 147, 38, 54, 63, 247, 204, 52, 165, 229, 241, 113, 216, 49, 21,
     4, 199, 35, 195, 24, 150, 5, 154, 7, 18, 128, 226, 235, 39, 178, 117,
     9, 131, 44, 26, 27, 110, 90, 160, 82, 59, 214, 179, 41, 227, 47, 132,
     83, 209, 0, 237, 32, 252, 177, 91, 106, 203, 190, 57, 74, 76, 88, 207,
     208, 239, 170, 251, 67, 77, 51, 133, 69, 249, 2, 127, 80, 60, 159, 168,
     81, 163, 64, 143, 146, 157, 56, 245, 188, 182, 218, 33, 16, 255, 243, 210,
     205, 12, 19, 236, 95, 151, 68, 23, 196, 167, 126, 61, 100, 93, 25, 115,
     96, 129, 79, 220, 34, 42, 144, 136, 70, 238, 184, 20, 222, 94, 11, 219,
     224, 50, 58, 10, 73, 6, 36, 92, 194, 211, 172, 98, 145, 149, 228, 121,
     231, 200, 55, 109, 141, 213, 78, 169, 108, 86, 244, 234, 101, 122, 174, 8,
     186, 120, 37, 46, 28, 166, 180, 198, 232, 221, 116, 31, 75, 189, 139, 138,
     112, 62, 181, 102, 72, 3, 246, 14, 97, 53, 87, 185, 134, 193, 29, 158,
     225, 248, 152, 17, 105, 217, 142, 148, 155, 30, 135, 233, 206, 85, 40, 223,
     140, 161, 137, 13, 191, 230, 66, 104, 65, 153, 45, 15, 176, 84, 187, 22 >>

\* multiplication by x in GF(2^8) modulo x^8 + x^4 + x^3 + x + 1
xtime(a) == IF a >= 128 THEN XorByte((2 * a) % 256, 27) ELSE 2 * a

XorSeq(a, b) == Slice([i \in 1..Len(a) |-> XorByte(a[i], b[i])])

RECURSIVE expandKey(_, _, _)
\* the key schedule: w is the sequence of 4-byte words so far, rc the
\* round constant of the next RotWord/SubWord step
expandKey(w, i, rc) ==
  IF Len(w) >= 44 THEN w
  ELSE LET p == w[i - 1]
           t == IF (i - 1) % 4 = 0
                THEN <<XorByte(sbox[p[2] + 1], rc), sbox[p[3] + 1],
                       sbox[p[4] + 1], sbox[p[1] + 1]>>
                ELSE p
       IN  expandKey(Append(w, XorSeq(w[i - 4], t)), i + 1,
                     IF (i - 1) % 4 = 0 THEN xtime(rc) ELSE rc)

\* aes.NewCipher(key) for a 16-byte key: the 44 words of the schedule
NewCipher(key) ==
  expandKey(Slice([j \in 1..4 |-> Slice([k \in 1..4 |-> key[4 * (j - 1) + k]])]), 5, 1)

\* the 16 bytes of round key r (0..10)
RoundKey(w, r) ==
  Slice([i \in 1..16 |-> w[4 * r + ((i - 1) \div 4) + 1][((i - 1) % 4) + 1]])

SubBytes(s) == Slice([i \in 1..16 |-> sbox[s[i] + 1]])

\* byte i-1 = 4*column + row moves left by row columns
ShiftRows(s) ==
  Slice([i \in 1..16 |->
           LET c == (i - 1) \div 4
               r == (i - 1) % 4
           IN  s[((c + r) % 4) * 4 + r + 1]])

MixColumns(s) ==
  Slice([i \in 1..16 |->
     LET c  == 4 * ((i - 1) \div 4)
         r  == (i - 1) % 4
         a0 == s[c + r + 1]
         a1 == s[c + ((r + 1) % 4) + 1]
         a2 == s[c + ((r + 2) % 4) + 1]
         a3 == s[c + ((r + 3) % 4) + 1]
     IN  XorByte(XorByte(xtime(a0), XorByte(xtime(a1), a1)), XorByte(a2, a3))])

RECURSIVE aesRounds(_, _, _)
\* rounds r..10 on state s; the guard on Len(s) makes TLC evaluate the
\* state of each round before the next one starts
aesRounds(s, w, r) ==
  IF Len(s) # blockSize THEN s
  ELSE IF r = 10 THEN XorSeq(ShiftRows(SubBytes(s)), RoundKey(w, 10))
  ELSE aesRounds(XorSeq(MixColumns(ShiftRows(SubBytes(s))), RoundKey(w, r)), w, r + 1)

\* cipher.Encrypt(dst, src) of the cipher made from key
aesEncrypt(key, src) ==
  LET w == NewCipher(key)
  IN  IF Len(w) # 44 THEN <<>> ELSE aesRounds(XorSeq(src, RoundKey(w, 0)), w, 1)

SheVector ==
  <<
     107, 193, 190, 226, 46, 64, 159, 150, 233, 61, 126, 17, 115, 147, 23, 42,
     174, 45, 138, 87, 30, 3, 172, 156, 158, 183, 111, 172, 69, 175, 142, 81 >>


\* ------------------------------------------------------------- shecomp.go
\* padding whose length forgets the remainder: always whole blocks
padding_RemainderNotSubtracted(b, messageByteLen) ==
  LET padMinBitLen == 8 * Len(b) + 1 + 40
      padByteLen   == ((padMinBitLen \div 128 + 1) * 128) \div 8
      bits         == U64Mul8(messageByteLen)
      pad          == [j \in 1..padByteLen |->
                         IF j > padByteLen - 5 THEN U64Byte(bits, padByteLen - j)
                         ELSE 0]
  IN  Slice([pad EXCEPT ![1] = OrByte80(pad[1])])

\* padding that writes the bit-length least-significant byte first
padding_LittleEndian(b, messageByteLen) ==
  LET padMinBitLen == 8 * Len(b) + 1 + 40
      padByteLen   == ((padMinBitLen \div 128 + 1) * 128) \div 8 - Len(b)
      bits         == U64Mul8(messageByteLen)
      pad          == [j \in 1..padByteLen |->
                         IF j > padByteLen - 5 THEN U64Byte(bits, j - (padByteLen - 4))
                         ELSE 0]
  IN  Slice([pad EXCEPT ![1] = OrByte80(pad[1])])

\* padding that only fills the block of the remainder, also when the marker
\* and the length do not fit in it
padding_FillsOneBlock(b, messageByteLen) ==
  LET padByteLen   == blockSize - Len(b)
      bits         == U64Mul8(messageByteLen)
      pad          == [j \in 1..padByteLen |->
                         IF j > padByteLen - 5 THEN U64Byte(bits, padByteLen - j)
                         ELSE 0]
  IN  Slice([pad EXCEPT ![1] = OrByte80(pad[1])])

\* padding(b, messageByteLen): b is the remainder, messageByteLen a uint64
padding(b, messageByteLen) ==
  LET padMinBitLen == 8 * Len(b) + 1 + 40
      padByteLen   == ((padMinBitLen \div 128 + 1) * 128) \div 8 - Len(b)
      bits         == U64Mul8(messageByteLen)
      pad          == [j \in 1..padByteLen |->
                         IF j > padByteLen - 5 THEN U64Byte(bits, padByteLen - j)
                         ELSE 0]
  IN  Slice([pad EXCEPT ![1] = OrByte80(pad[1])])

\* encrypt(src, previous): previous XOR AES(key = previous, src) XOR src
encrypt(src, previous) ==
  IF Len(src) # blockSize \/ Len(previous) # blockSize
  THEN [out |-> <<>>, err |-> "shecomp: failed to encrypt"]
  ELSE LET encrypted == aesEncrypt(previous, src)
           fed       == xor(encrypted, src).r
       IN  [out |-> xor(previous, fed).r, err |-> "nil"]

\* block of noPaddingReader without the check of the chunk length
noPaddingReaderBlock_ShortAccepted(dst, rd) ==
  LET d == hexDecode(dst, rd)
  IN  IF d.err # "nil" THEN [dst |-> d.dst, err |-> d.err]
      ELSE [dst |-> d.dst, err |-> "nil"]

\* (*noPaddingReader).block(dst), rd is what r.r.Read returned
noPaddingReaderBlock(dst, rd) ==
  LET d == hexDecode(dst, rd)
  IN  IF d.err # "nil" THEN [dst |-> d.dst, err |-> d.err]
      ELSE IF d.n < blockSize THEN [dst |-> d.dst, err |-> "ErrNeedPadding"]
      ELSE [dst |-> d.dst, err |-> "nil"]

\* newPaddingReader(r)
newPaddingReader ==
  [b |-> Zeros(blockSize), readBytes |-> U64Zero, pad |-> <<>>, eof |-> FALSE]

\* block of paddingReader comparing the byte count, not the bit count,
\* with maxBitLength
paddingReaderBlock_BytesCompared(r, dst, rd) ==
  IF r.eof THEN [r |-> r, dst |-> dst, err |-> "io.EOF"]
  ELSE
    LET d  == hexDecode(r.b, rd)
        rb == U64Add(r.readBytes, d.n)
    IN  IF d.err # "nil" /\ d.err # "io.EOF"
        THEN [r |-> [r EXCEPT !.b = d.dst], dst |-> dst, err |-> d.err]
        ELSE IF U64Gt(rb, maxBitLength)
        THEN [r |-> [r EXCEPT !.b = d.dst, !.readBytes = rb], dst |-> dst,
              err |-> "ErrLargePlainText"]
        ELSE IF d.n = blockSize
        THEN [r |-> [r EXCEPT !.b = d.dst, !.readBytes = rb],
              dst |-> Copy(dst, d.dst), err |-> "nil"]
        ELSE LET rem == SubSeq(d.dst, 1, d.n)
                 p   == padding(rem, rb)
             IN  [r |-> [b |-> rem, readBytes |-> rb, pad |-> p, eof |-> TRUE],
                  dst |-> Copy(dst, rem \o p), err |-> "nil"]

\* block of paddingReader returning io.EOF at once when nothing was decoded,
\* without a padding block
paddingReaderBlock_EmptyRemainderDropped(r, dst, rd) ==
  IF r.eof THEN [r |-> r, dst |-> dst, err |-> "io.EOF"]
  ELSE
    LET d  == hexDecode(r.b, rd)
        rb == U64Add(r.readBytes, d.n)
    IN  IF d.err # "nil" /\ d.err # "io.EOF"
        THEN [r |-> [r EXCEPT !.b = d.dst], dst |-> dst, err |-> d.err]
        ELSE IF U64Gt(U64Mul8(rb), maxBitLength)
        THEN [r |-> [r EXCEPT !.b = d.dst, !.readBytes = rb], dst |-> dst,
              err |-> "ErrLargePlainText"]
        ELSE IF d.n = blockSize
        THEN [r |-> [r EXCEPT !.b = d.dst, !.readBytes = rb],
              dst |-> Copy(dst, d.dst), err |-> "nil"]
        ELSE IF d.n = 0
        THEN [r |-> [b |-> <<>>, readBytes |-> rb, pad |-> <<>>, eof |-> TRUE],
              dst |-> dst, err |-> "io.EOF"]
        ELSE LET rem == SubSeq(d.dst, 1, d.n)
                 p   == padding(rem, rb)
             IN  [r |-> [b |-> rem, readBytes |-> rb, pad |-> p, eof |-> TRUE],
                  dst |-> Copy(dst, rem \o p), err |-> "nil"]

\* (*paddingReader).block(dst), rd is what r.r.Read returned; r is the
\* record of the fields b, readBytes, pad, eof
paddingReaderBlock(r, dst, rd) ==
  IF r.eof THEN [r |-> r, dst |-> dst, err |-> "io.EOF"]
  ELSE
    LET d  == hexDecode(r.b, rd)
        rb == U64Add(r.readBytes, d.n)
    IN  IF d.err # "nil" /\ d.err # "io.EOF"
        THEN [r |-> [r EXCEPT !.b = d.dst], dst |-> dst, err |-> d.err]
        ELSE IF U64Gt(U64Mul8(rb), maxBitLength)
        THEN [r |-> [r EXCEPT !.b = d.dst, !.readBytes = rb], dst |-> dst,
              err |-> "ErrLargePlainText"]
        ELSE IF d.n = blockSize
        THEN [r |-> [r EXCEPT !.b = d.dst, !.readBytes = rb],
              dst |-> Copy(dst, d.dst), err |-> "nil"]
        ELSE LET rem == SubSeq(d.dst, 1, d.n)
                 p   == padding(rem, rb)
             IN  [r |-> [b |-> rem, readBytes |-> rb, pad |-> p, eof |-> TRUE],
                  dst |-> Copy(dst, rem \o p), err |-> "nil"]

\* ------------------------------------------------------------ io.Reader
\* the readers a call can be given: "full" fills the buffer until the stream
\* ends and then returns (0, io.EOF) (strings.Reader, bytes.Reader, files);
\* "short" may return fewer characters than asked (pipes, terminals);
\* "dataEOF" returns the last characters together with io.EOF
ReaderKinds == {"full", "short", "dataEOF"}

\* sizes a short Read may return
ShortSizes == {1, 2, 10}

\* Read(h) with len(h) = max at offset p of stream s: the possible (h[:n], err)
Read(kind, s, p, max) ==
  LET avail == Len(s) - p
      most  == IF avail < max THEN avail ELSE max
      sizes == IF kind = "short" THEN {k \in ShortSizes \cup {most} : k <= most}
               ELSE {most}
  IN  IF avail = 0 THEN {[h |-> <<>>, err |-> "io.EOF"]}
      ELSE {[h   |-> SubSeq(s, p + 1, p + k),
             err |-> IF kind = "dataEOF" /\ avail <= max THEN "io.EOF" ELSE "nil"]
            : k \in sizes}

\* --------------------------------------------------------------- inputs
\* byte i (from 0) of the message of a family: the SHE specification's
\* example repeated, or 0x88 repeated as in shecomp_test.go
MsgByte(seed, i) == IF seed = "she" THEN SheVector[(i % 32) + 1] ELSE 136

Message(seed, n) == Slice([i \in 1..n |-> MsgByte(seed, i - 1)])

MaxLen == MaxBlocks * blockSize + blockSize - 1

\* characters that are not hex digits: LF and 'g'
BadChars == {10, 103}

\* upper-case hex digits in place of the lower-case ones
ToUpper(s) == Slice([i \in 1..Len(s) |-> IF s[i] >= 97 THEN s[i] - 32 ELSE s[i]])

CleanStreams ==
  {hexEncode(Message(seed, n)) : seed \in {"she", "88"}, n \in 0..MaxLen}
  \cup {ToUpper(hexEncode(Message("she", n))) : n \in {1, blockSize, blockSize + 1}}

\* one character too few, or a bad character in place of a digit, or the
\* line terminator of a text file after the digits
DefectStreams ==
  {SubSeq(hexEncode(Message("88", n)), 1, 2 * n - 1) : n \in 1..MaxLen}
  \cup UNION {{[hexEncode(Message("88", n)) EXCEPT ![p] = c] \o <<>> :
                  p \in 1..(2 * n), c \in BadChars} : n \in 1..MaxLen}
  \cup {hexEncode(Message("88", n)) \o <<13, 10>> : n \in 0..MaxLen}


\* readBytes of a Padding call that has already read 2^37 - 32 or 2^37 - 16
\* bytes of full blocks (block_test.go starts next to the limit the same way)
NearLimit == {<<224, 255, 255, 255, 31, 0, 0, 0>>, <<240, 255, 255, 255, 31, 0, 0, 0>>}

\* ----------------------------------------------------------------- state
VARIABLES
  fn,         \* the public function called
  reader,     \* the kind of the io.Reader it was given
  stream,     \* the characters the io.Reader delivers from now on, all of them
  pos,        \* how many of them Read has returned
  pre,        \* readBytes when the model starts to follow the call
  b,          \* paddingReader.b
  readBytes,  \* paddingReader.readBytes
  pad,        \* paddingReader.pad
  eof,        \* paddingReader.eof
  src,        \* the block buffer: src of compress, out of Padding
  out,        \* the chaining state of compress
  steps,      \* how many times compress has called encrypt
  pc,         \* "loop" while the call reads blocks, "done" once it returned
  ret         \* what the call returned: [val, err]

vars == <<fn, reader, stream, pos, pre, b, readBytes, pad, eof, src, out, steps, pc, ret>>

Nil == <<-1>>

NoRet == [val |-> Nil, err |-> "nil"]

\* the state at the first block read of a call of f on a reader of kind k
\* over the characters s, the paddingReader having counted p bytes before
Start(f, k, s, p) ==
  /\ fn = f
  /\ reader = k
  /\ stream = s
  /\ pos = 0
  /\ pre = p
  /\ b = newPaddingReader.b
  /\ readBytes = p
  /\ pad = newPaddingReader.pad
  /\ eof = newPaddingReader.eof
  /\ src = Zeros(blockSize)
  /\ out = Zeros(blockSize)
  /\ steps = 0
  /\ pc = "loop"
  /\ ret = NoRet

InitOn(kinds, streams) ==
  \/ \E f \in {"Compress", "Padding", "CompressWithoutPadding"}, k \in kinds,
        s \in streams :
       Start(f, k, s, U64Zero)
  \/ \E k \in kinds, p \in NearLimit, n \in 0..(2 * blockSize + 1), c \in BadChars \cup {56} :
       Start("Padding", k,
             IF n = 0 THEN <<>> ELSE [hexEncode(Message("88", n)) EXCEPT ![2 * n] = c] \o <<>>,
             p)

\* calls on a reader that fills the buffer, as strings.NewReader does
Init == InitOn({"full"}, CleanStreams \cup DefectStreams)

\* calls on any io.Reader, over the streams of up to MaxIOLen characters
MaxIOLen == 36

InitIO == InitOn(ReaderKinds, {s \in CleanStreams \cup DefectStreams : Len(s) <= MaxIOLen})

\* the paddingReader of the current state
PR == [b |-> b, readBytes |-> readBytes, pad |-> pad, eof |-> eof]

\* what the next block call reads: nothing once r.eof is set
NextRead == IF eof THEN {[h |-> <<>>, err |-> "nil"]}
            ELSE Read(reader, stream, pos, 2 * Len(b))

SetPR(r) ==
  /\ b' = r.b
  /\ readBytes' = r.readBytes
  /\ pad' = r.pad
  /\ eof' = r.eof

\* one iteration of the loop of compress(br) called by Compress, with the
\* return and the hex encoding when the loop ends
CompressLoop ==
  /\ fn = "Compress"
  /\ pc = "loop"
  /\ \E rd \in NextRead :
       LET res == paddingReaderBlock(PR, src, rd)
           e   == encrypt(res.dst, out)
       IN  /\ pos' = pos + Len(rd.h)
           /\ SetPR(res.r)
           /\ src' = res.dst
           /\ IF res.err = "io.EOF"
              THEN /\ pc' = "done"
                   /\ ret' = [val |-> hexEncode(out), err |-> "nil"]
                   /\ UNCHANGED <<out, steps>>
              ELSE IF res.err # "nil"
              THEN /\ pc' = "done"
                   /\ ret' = [val |-> Nil, err |-> res.err]
                   /\ UNCHANGED <<out, steps>>
              ELSE IF e.err # "nil"
              THEN /\ pc' = "done"
                   /\ ret' = [val |-> Nil, err |-> e.err]
                   /\ steps' = steps + 1
                   /\ UNCHANGED out
              ELSE /\ out' = e.out
                   /\ steps' = steps + 1
                   /\ UNCHANGED <<pc, ret>>
  /\ UNCHANGED <<fn, reader, stream, pre>>

\* one iteration of the loop of Padding, with the hex encoding of br.pad
\* when the loop ends
PaddingLoop ==
  /\ fn = "Padding"
  /\ pc = "loop"
  /\ \E rd \in NextRead :
       LET res == paddingReaderBlock(PR, out, rd)
       IN  /\ pos' = pos + Len(rd.h)
           /\ SetPR(res.r)
           /\ out' = res.dst
           /\ IF res.err = "io.EOF"
              THEN /\ pc' = "done"
                   /\ ret' = [val |-> hexEncode(pad), err |-> "nil"]
              ELSE IF res.err # "nil"
              THEN /\ pc' = "done"
                   /\ ret' = [val |-> Nil, err |-> res.err]
              ELSE UNCHANGED <<pc, ret>>
  /\ UNCHANGED <<fn, reader, stream, pre, src, steps>>

\* one iteration of the loop of compress(br) called by
\* CompressWithoutPadding, with the return and the hex encoding
CompressWithoutPaddingLoop ==
  /\ fn = "CompressWithoutPadding"
  /\ pc = "loop"
  /\ \E rd \in Read(reader, stream, pos, 2 * Len(src)) :
       LET res == noPaddingReaderBlock(src, rd)
           e   == encrypt(res.dst, out)
       IN  /\ pos' = pos + Len(rd.h)
           /\ src' = res.dst
           /\ IF res.err = "io.EOF"
              THEN /\ pc' = "done"
                   /\ ret' = [val |-> hexEncode(out), err |-> "nil"]
                   /\ UNCHANGED <<out, steps>>
              ELSE IF res.err # "nil"
              THEN /\ pc' = "done"
                   /\ ret' = [val |-> Nil, err |-> res.err]
                   /\ UNCHANGED <<out, steps>>
              ELSE IF e.err # "nil"
              THEN /\ pc' = "done"
                   /\ ret' = [val |-> Nil, err |-> e.err]
                   /\ steps' = steps + 1
                   /\ UNCHANGED out
              ELSE /\ out' = e.out
                   /\ steps' = steps + 1
                   /\ UNCHANGED <<pc, ret>>
  /\ UNCHANGED <<fn, reader, stream, pre, b, readBytes, pad, eof>>

Next == CompressLoop \/ PaddingLoop \/ CompressWithoutPaddingLoop

Spec == Init /\ [][Next]_vars

SpecIO == InitIO /\ [][Next]_vars


\* ------------------------------------------------ vocabulary of the claims
Done == pc = "done"

Ok == Done /\ ret.err = "nil"

\* an even number of characters, every one a hex digit
WellFormed(s) == Len(s) % 2 = 0 /\ \A i \in 1..Len(s) : fromHexChar(s[i]) <= 15

\* the bytes a well-formed stream encodes
Decoded(s) == hexDecodeString(Zeros(Len(s) \div 2), s).dst

\* the number of bytes the whole stream encodes
MsgLen == Len(stream) \div 2

\* p + k >= 2^37, that is 8 * (p + k) > 2^40 - 1, for p = 0 or p in NearLimit
\* and k below 2^31
OverLimit(p, k) ==
  IF p = U64Zero THEN FALSE ELSE k >= (IF p[1] = 240 THEN 16 ELSE 32)

\* the padding was computed: the reader has seen the end of the message
Padded == fn \in {"Compress", "Padding"} /\ eof

RECURSIVE Fold(_, _)
\* the chaining state after the blocks of data, starting from S
Fold(S, data) ==
  IF data = <<>> \/ Len(S) # blockSize THEN S
  ELSE Fold(encrypt(SubSeq(data, 1, blockSize), S).out,
            SubSeq(data, blockSize + 1, Len(data)))

\* message ++ padding(remainder of message, length of message)
PaddedMessage(m) ==
  m \o padding(SubSeq(m, Len(m) - (Len(m) % blockSize) + 1, Len(m)),
               U64Add(U64Zero, Len(m)))

\* ------------------------------------------------------------------ C1
\* C1: for every well-formed input within the length limit Compress returns
\* the hex encoding of the fold of the chaining step over every 16-byte block
\* of message ++ padding(message), from 16 zero bytes, for every remainder
\* length 0..15.
C1_FoldsWholePaddedMessage ==
  (fn = "Compress" /\ Done /\ pre = U64Zero /\ WellFormed(stream)) =>
     /\ ret.err = "nil"
     /\ ret.val = hexEncode(Fold(Zeros(blockSize), PaddedMessage(Decoded(stream))))

\* ------------------------------------------------------------------ C2
\* C2: remainder length plus padding length is a positive multiple of 16, and
\* the padding of an empty remainder is exactly 16 bytes; Padding returns the
\* two hex digits of each of these bytes.
C2_PaddingAligns ==
  Padded =>
     /\ Len(b) \in 0..(blockSize - 1)
     /\ Len(b) + Len(pad) > 0
     /\ (Len(b) + Len(pad)) % blockSize = 0
     /\ (Len(b) = 0 => Len(pad) = blockSize)
     /\ (fn = "Padding" /\ Ok => Len(ret.val) = 2 * Len(pad))

\* a message of full blocks only has been padded with a whole block
C2_Witness ==
  fn = "Padding" /\ Ok /\ pos >= 2 * blockSize /\ Len(b) = 0 /\ Len(pad) = blockSize

\* ------------------------------------------------------------------ C3
\* C3: the padding starts with the bit 1, ends with the 40-bit big-endian
\* bit-length of the whole message, not truncated, and is 0 in between.
C3_PaddingLayout ==
  Padded =>
     LET L     == Len(pad)
         total == U64Add(pre, MsgLen)
         field == <<pad[L], pad[L - 1], pad[L - 2], pad[L - 3], pad[L - 4], 0, 0, 0>>
     IN  /\ L >= 6
         /\ pad[1] = 128
         /\ \A j \in 2..(L - 5) : pad[j] = 0
         /\ field = U64Mul8(total)
         /\ (pre = U64Zero =>
               /\ 256 * pad[L - 1] + pad[L] = 8 * MsgLen
               /\ pad[L - 2] = 0 /\ pad[L - 3] = 0 /\ pad[L - 4] = 0)

\* the padding of 32 bytes: the length 256 needs the second byte of the field
C3_Witness ==
  Padded /\ pre = U64Zero /\ MsgLen = 2 * blockSize /\ pad[Len(pad) - 1] = 1

\* ------------------------------------------------------------------ C4
\* C4: Compress and Padding end with ErrLargePlainText exactly when the bytes
\* read make more than 2^40 - 1 bits; a well-formed message up to the limit
\* is accepted, one block more is refused, and a result is only returned for
\* a message that was read and counted to its end.
C4_LengthLimit ==
  (fn \in {"Compress", "Padding"} /\ Done) =>
     /\ (ret.err = "ErrLargePlainText") = U64Gt(U64Mul8(readBytes), maxBitLength)
     /\ (ret.err = "ErrLargePlainText" => OverLimit(pre, pos \div 2))
     /\ (ret.err = "nil" =>
           /\ ~OverLimit(pre, MsgLen)
           /\ pos = Len(stream)
           /\ readBytes = U64Add(pre, MsgLen))
     /\ (WellFormed(stream) =>
           ret.err = (IF OverLimit(pre, MsgLen) THEN "ErrLargePlainText" ELSE "nil"))

\* the longest message, 2^37 - 1 bytes, was accepted
C4_Witness ==
  fn = "Padding" /\ Ok /\ readBytes = <<255, 255, 255, 255, 31, 0, 0, 0>>

\* ------------------------------------------------------------------ C5
\* C5: CompressWithoutPadding on a well-formed input whose byte count is not
\* a multiple of 16 returns ErrNeedPadding and no output, and returns a
\* result only when every chunk was a whole block.
C5_NoPaddingNeedsBlocks ==
  (fn = "CompressWithoutPadding" /\ Done) =>
     /\ (WellFormed(stream) /\ MsgLen % blockSize # 0 =>
           ret.err = "ErrNeedPadding" /\ ret.val = Nil)
     /\ (ret.err = "nil" =>
           /\ Len(stream) % (2 * blockSize) = 0
           /\ steps = MsgLen \div blockSize)

\* a short chunk after a full block was refused
C5_Witness ==
  fn = "CompressWithoutPadding" /\ Done /\ ret.err = "ErrNeedPadding"
  /\ steps >= 1 /\ WellFormed(stream)

\* ------------------------------------------------------------------ C6
\* C6: a stream with an odd number of characters or with a character that is
\* not a hex digit, at any position, makes Compress, Padding and
\* CompressWithoutPadding return an error and no output.
C6_MalformedIsRefused ==
  (Done /\ ~WellFormed(stream)) => ret.err # "nil" /\ ret.val = Nil

\* a bad character in a later chunk, after blocks were already folded
C6_Witness ==
  fn = "Compress" /\ Done /\ ret.err = "hex.InvalidByteError" /\ steps >= 1
  /\ pos > 2 * blockSize

\* ------------------------------------------------------------------ C8
\* C8: for a message of n bytes, n a multiple of 16 (0 included), Compress
\* makes n/16 + 1 chaining steps and the last is over 0x80, ten zero bytes and
\* the 5-byte big-endian bit-length; Compress always makes at least one step.
C8_EmptyRemainderIsPadded ==
  (fn = "Compress" /\ Ok) =>
     /\ steps >= 1
     /\ (MsgLen % blockSize = 0 =>
           /\ Len(b) = 0
           /\ steps = MsgLen \div blockSize + 1
           /\ src = <<128, 0, 0, 0, 0, 0, 0, 0, 0, 0, 0,
                      0, 0, 0, (8 * MsgLen) \div 256, (8 * MsgLen) % 256>>)

\* two full blocks were followed by the padding block
C8_Witness ==
  fn = "Compress" /\ Ok /\ MsgLen = 2 * blockSize /\ steps = 3

\* ------------------------------------------------------------------ C9
\* C9 as stated: the padding is between 6 and 16 bytes long for every
\* remainder length 0..15.
C9_PaddingAtMostOneBlock ==
  Padded => Len(pad) \in 6..blockSize

\* C9 amended: the padding is 16 - r bytes for a remainder of r <= 10 bytes
\* and 32 - r bytes for a remainder of 11..15 bytes, so between 6 and 21 bytes.
C9_PaddingLength ==
  Padded =>
     /\ Len(pad) \in 6..21
     /\ Len(pad) = (IF Len(b) <= 10 THEN blockSize ELSE 2 * blockSize) - Len(b)

\* a remainder of 11 bytes got 21 bytes of padding
C9_Witness ==
  Padded /\ Len(b) = 11 /\ Len(pad) = 21

\* ------------------------------------------------------------------ C10
\* C10: the length limit is checked once all input has been consumed, not per
\* chunk: a call that ends with ErrLargePlainText has read the whole input
\* before, so that a decode error in a later chunk is not masked by it.
C10_LimitCheckedAtEnd ==
  (Done /\ ret.err = "ErrLargePlainText") => pos = Len(stream)

\* ------------------------------------------------------------------ C7
RECURSIVE CompressFull(_, _, _, _, _)
\* what Compress returns when its reader fills the buffer at every Read:
\* the loop of compress from offset p of s, with paddingReader r, block
\* buffer dst and chaining state o
CompressFull(s, p, r, dst, o) ==
  LET rd  == IF r.eof THEN [h |-> <<>>, err |-> "nil"]
             ELSE CHOOSE x \in Read("full", s, p, 2 * Len(r.b)) : TRUE
      res == paddingReaderBlock(r, dst, rd)
      e   == encrypt(res.dst, o)
  IN  IF res.err = "io.EOF" THEN [val |-> hexEncode(o), err |-> "nil"]
      ELSE IF res.err # "nil" THEN [val |-> Nil, err |-> res.err]
      ELSE IF e.err # "nil" THEN [val |-> Nil, err |-> e.err]
      ELSE CompressFull(s, p + Len(rd.h), res.r, res.dst, e.out)

\* C7: two runs of Compress whose readers deliver the same characters return
\* the same output or the same error, however the readers split the
\* characters over the Reads, and a result reflects every character.
C7_SameResultForSameCharacters ==
  (fn = "Compress" /\ Done) =>
     /\ ret = CompressFull(stream, 0, [newPaddingReader EXCEPT !.readBytes = pre],
                          Zeros(blockSize), Zeros(blockSize))
     /\ (ret.err = "nil" => pos = Len(stream))

====
